---- MODULE Spec2Model ----
(***************************************************************************)
(* Model of SlocumBatteryPercentageDuration.py: the per-file pipeline that *)
(* cleans a (time, sensor) series, fits a line to it and extrapolates the  *)
(* time at which the sensor reaches the threshold.                         *)
(*                                                                         *)
(* Timestamps are whole seconds since the epoch; a posix float time is     *)
(* given in half seconds until line 70 casts it.  The time coordinate is   *)
(* taken to be held at nanosecond resolution, as line 99 assumes.          *)
(* Floating point values (elapsed days, slope, intercept, days to          *)
(* recovery) are modelled as exact rationals together with the IEEE        *)
(* special values nan/inf/-inf.  The optional plot (lines 52-54, 129-154)  *)
(* writes nothing the report or the loop reads and is left out.            *)
(*                                                                         *)
(*   args     the parsed command line                                      *)
(*   index    the loop variable of line 56                                 *)
(*   pc       where the run is: "loop", "cleaned", "windowed", "reported", *)
(*            "skipped", "done", "aborted" (an uncaught exception)         *)
(*   file     the content of the file of the current pass                  *)
(*   ds       the dataset of the current pass                              *)
(*   open     the indices of the datasets that are open                    *)
(*   opened   the indices of the datasets opened so far, in order          *)
(*   log      the errors logged so far                                     *)
(*   reports  the indices of the files a report was printed for            *)
(*   report   the report printed in the current pass                       *)
(***************************************************************************)
EXTENDS Integers, Sequences, FiniteSets, TLC

VARIABLES args, index, pc, file, ds, open, opened, log, reports, report

vars == <<args, index, pc, file, ds, open, opened, log, reports, report>>

(***************************************************************************)
(* Bounds of the model and constants of the program.                       *)
(***************************************************************************)
\* number of file names on the command line
MaxFiles == 2
\* largest number of samples in one file
MaxLen == 3
\* seconds per day (lines 92 and 99)
SecsPerDay == 86400
\* default of --threshold (line 41)
DefaultThreshold == 15

(***************************************************************************)
(* Rational arithmetic: [n, d] with d > 0 and gcd(n, d) = 1.               *)
(***************************************************************************)
Abs(i) == IF i < 0 THEN -i ELSE i

RECURSIVE GCD(_, _)
GCD(a, b) == IF b = 0 THEN a ELSE GCD(b, a % b)

RNorm(n, d) ==
    LET s == IF d < 0 THEN -1 ELSE 1
        g == GCD(Abs(n), Abs(d))
    IN  [n |-> (s * n) \div g, d |-> (s * d) \div g]

RInt(i) == [n |-> i, d |-> 1]
RSub(a, b) == RNorm(a.n * b.d - b.n * a.d, a.d * b.d)
RMul(a, b) == RNorm(a.n * b.n, a.d * b.d)
RDiv(a, b) == RNorm(a.n * b.d, a.d * b.n)

\* truncation toward zero, as a cast of a float to an integer type does
Trunc(a) == IF a.n >= 0 THEN a.n \div a.d ELSE -((-a.n) \div a.d)

(***************************************************************************)
(* Floats: a finite rational or one of nan, inf, ninf.                     *)
(***************************************************************************)
Fin(q) == [k |-> "fin", q |-> q]
NaN == [k |-> "nan", q |-> RInt(0)]
PosInf == [k |-> "inf", q |-> RInt(0)]
NegInf == [k |-> "ninf", q |-> RInt(0)]

\* numpy float64 division: a zero divisor gives nan or a signed infinity
FDiv(a, b) ==
    IF a.k = "nan" \/ b.k = "nan" THEN NaN
    ELSE IF a.k # "fin" \/ b.k # "fin" THEN NaN
    ELSE IF b.q.n = 0
         THEN IF a.q.n = 0 THEN NaN
              ELSE IF a.q.n > 0 THEN PosInf ELSE NegInf
    ELSE Fin(RDiv(a.q, b.q))

FSub(a, b) ==
    IF a.k = "fin" /\ b.k = "fin" THEN Fin(RSub(a.q, b.q)) ELSE NaN

(***************************************************************************)
(* Inputs: samples, files, command lines.                                  *)
(***************************************************************************)
Values == {40, 50}

\* a sample of the sensor; isnull marks a missing (NaN) sensor value
Samples(T) ==
    {[t |-> t, v |-> v, isnull |-> FALSE] : t \in T, v \in Values}
        \cup {[t |-> t, v |-> 0, isnull |-> TRUE] : t \in T}

\* native datetime64 timestamps, in seconds: midnight of three days
NativeTimes == {0, SecsPerDay, 2 * SecsPerDay}
\* posix float times, in half seconds: 0 s, 0.5 s and half a day
FloatTimes == {0, 1, SecsPerDay}

SeqsUpTo(S, n) == UNION {[1..k -> S] : k \in 0..n}

Files ==
    {[readable |-> TRUE, hasTime |-> TRUE, hasSensor |-> TRUE, kind |-> "M", samples |-> s] :
        s \in SeqsUpTo(Samples(NativeTimes), MaxLen)}
    \cup
    {[readable |-> TRUE, hasTime |-> TRUE, hasSensor |-> TRUE, kind |-> "f", samples |-> s] :
        s \in SeqsUpTo(Samples(FloatTimes), MaxLen)}
    \cup
    {[readable |-> TRUE, hasTime |-> ht, hasSensor |-> hs, kind |-> "M", samples |-> << >>] :
        ht \in BOOLEAN, hs \in BOOLEAN}
    \cup
    {[readable |-> FALSE, hasTime |-> FALSE, hasSensor |-> FALSE, kind |-> "M", samples |-> << >>]}

NoFile == [readable |-> FALSE, hasTime |-> FALSE, hasSensor |-> FALSE, kind |-> "M", samples |-> << >>]

\* an optional command line value
None == [given |-> FALSE, val |-> 0]
Some(x) == [given |-> TRUE, val |-> x]

\* --ndays is a float, in days
NoDays == [given |-> FALSE, val |-> RInt(0)]

\* the command lines parse_args accepts: --ndays and --start exclude each other
\* (lines 36-38); --stop is outside the group (line 40)
ArgsSet ==
    {a \in [start : {None, Some(SecsPerDay)},
            stop : {None, Some(SecsPerDay)},
            ndays : {NoDays, Some(RInt(1))},
            threshold : {DefaultThreshold}] :
        ~(a.ndays.given /\ a.start.given)}

(***************************************************************************)
(* The cleaning steps of the loop body.                                    *)
(***************************************************************************)
\* lines 66-74: a float time variable is cast to datetime64[s], which drops
\* the fraction of a second; a native timestamp is kept as it is
ToStamp(kind, t) == IF kind = "f" THEN t \div 2 ELSE t

ConvertTime(kind, s) ==
    [i \in 1..Len(s) |-> [s[i] EXCEPT !.t = ToStamp(kind, s[i].t)]]

\* line 76, keep="last": the variant of DropDuplicates that keeps the last occurrence
DropDuplicatesKeepLast(s) ==
    LET keep(i) == \A j \in (i + 1)..Len(s) : s[j].t # s[i].t
        F[i \in 0..Len(s)] ==
            IF i = 0 THEN << >>
            ELSE IF keep(i) THEN Append(F[i - 1], s[i]) ELSE F[i - 1]
    IN  F[Len(s)]

\* line 76: drop_duplicates("time", keep="first")
DropDuplicates(s) ==
    LET keep(i) == \A j \in 1..(i - 1) : s[j].t # s[i].t
        F[i \in 0..Len(s)] ==
            IF i = 0 THEN << >>
            ELSE IF keep(i) THEN Append(F[i - 1], s[i]) ELSE F[i - 1]
    IN  F[Len(s)]

\* line 77: select, by label, the times whose sensor value is not null
DropNull(s) ==
    LET labels == {s[i].t : i \in {j \in 1..Len(s) : ~s[j].isnull}}
        F[i \in 0..Len(s)] ==
            IF i = 0 THEN << >>
            ELSE IF s[i].t \in labels THEN Append(F[i - 1], s[i]) ELSE F[i - 1]
    IN  F[Len(s)]

\* line 78: sortby("time"), a stable ascending sort
RECURSIVE Insert(_, _)
Insert(s, x) ==
    IF s = << >> THEN <<x>>
    ELSE IF s[Len(s)].t <= x.t THEN Append(s, x)
    ELSE Append(Insert(SubSeq(s, 1, Len(s) - 1), x), s[Len(s)])

SortBy(s) ==
    LET F[i \in 0..Len(s)] == IF i = 0 THEN << >> ELSE Insert(F[i - 1], s[i])
    IN  F[Len(s)]

\* lines 66-78
CleanSamples(kind, s) == SortBy(DropNull(DropDuplicates(ConvertTime(kind, s))))

\* lines 89 and 93: sel(time=slice(stime, etime)), both ends included
SelSlice(s, stime, etime) ==
    LET F[i \in 0..Len(s)] ==
            IF i = 0 THEN << >>
            ELSE IF stime <= s[i].t /\ s[i].t <= etime THEN Append(F[i - 1], s[i])
            ELSE F[i - 1]
    IN  F[Len(s)]

\* line 92: int(args.ndays * 86400)
NdaysSecs(nd) == Trunc(RMul(nd, RInt(SecsPerDay)))

\* lines 80-93: which window the command line selects
WindowKind(a) ==
    IF a.start.given \/ a.stop.given THEN "absolute"
    ELSE IF a.ndays.given THEN "trailing"
    ELSE "none"

\* lines 84, 88, 91: ds.time[0] or ds.time[-1] of an empty series raises IndexError
WindowRaises(a, s) ==
    /\ Len(s) = 0
    /\ \/ WindowKind(a) = "absolute" /\ (~a.start.given \/ ~a.stop.given)
       \/ WindowKind(a) = "trailing"

\* lines 80-93, when nothing is raised
WindowSamples(a, s) ==
    IF WindowKind(a) = "absolute"
    THEN LET stime == IF a.start.given THEN a.start.val ELSE s[1].t
             etime == IF a.stop.given THEN a.stop.val ELSE s[Len(s)].t
         IN  SelSlice(s, stime, etime)
    ELSE IF WindowKind(a) = "trailing"
    THEN LET etime == s[Len(s)].t
             stime == etime - NdaysSecs(a.ndays.val)
         IN  SelSlice(s, stime, etime)
    ELSE s

(***************************************************************************)
(* The fit and the extrapolation.                                          *)
(***************************************************************************)
\* line 99: elapsed days since the first retained sample
dDays(s) == [i \in 1..Len(s) |-> RNorm(s[i].t - s[1].t, SecsPerDay)]

\* the sensor values of the model are whole numbers
SensorOf(s) == [i \in 1..Len(s) |-> s[i].v]

\* the sum of the whole numbers f[1], ..., f[n]
ISum(f) ==
    LET F[i \in 0..Len(f)] == IF i = 0 THEN 0 ELSE F[i - 1] + f[i]
    IN  F[Len(f)]

\* a common denominator of the rationals x[1], ..., x[n]
CommonDen(x) ==
    LET F[i \in 0..Len(x)] ==
            IF i = 0 THEN 1 ELSE (F[i - 1] * x[i].d) \div GCD(F[i - 1], x[i].d)
    IN  F[Len(x)]

\* line 101: scipy.stats.linregress(x, y), the ordinary least squares line
\* y = intercept + slope * x.  With X = D * x whole numbers, the slope is
\* D * cov(X, y) / var(X) and the line passes through the means.  With one
\* point the slope is 0/0; linregress refuses two or more points whose x
\* values are all the same.
linregress(x, y) ==
    LET n == Len(x)
        D == CommonDen(x)
        X == [i \in 1..n |-> x[i].n * (D \div x[i].d)]
        SX == ISum(X)
        SY == ISum(y)
        SXY == ISum([i \in 1..n |-> X[i] * y[i]])
        SXX == ISum([i \in 1..n |-> X[i] * X[i]])
        ssxym == n * SXY - SX * SY
        ssxm == n * SXX - SX * SX
    IN  IF n = 1
        THEN [raised |-> FALSE, slope |-> NaN, intercept |-> NaN]
        ELSE IF ssxm = 0
        THEN [raised |-> TRUE, slope |-> NaN, intercept |-> NaN]
        ELSE [raised |-> FALSE,
              slope |-> Fin(RNorm(D * ssxym, ssxm)),
              intercept |-> Fin(RNorm(SY * ssxm - ssxym * SX, n * ssxm))]

\* line 103: (args.threshold - mdl.intercept) / mdl.slope
DRecovery(threshold, mdl) == FDiv(FSub(Fin(RInt(threshold)), mdl.intercept), mdl.slope)

NaT == [nat |-> TRUE, t |-> 0]

\* the first timestamp plus the offset with its fraction of a day, at the
\* resolution of the report, one second
TRecoverByExact(t0, dRecovery) ==
    IF dRecovery.k # "fin" THEN NaT
    ELSE [nat |-> FALSE, t |-> t0 + Trunc(RMul(dRecovery.q, RInt(SecsPerDay)))]

\* lines 104-105: the offset is cast to timedelta64[D], whole days, and added
\* to the first timestamp; a nan or infinite offset gives NaT
TRecoverBy(t0, dRecovery) ==
    IF dRecovery.k # "fin" THEN NaT
    ELSE [nat |-> FALSE, t |-> t0 + Trunc(dRecovery.q) * SecsPerDay]

\* lines 107-118: the band is sigmaRecoverBy times the t quantile at n - 2
\* degrees of freedom, which is nan unless n > 2; TRUE when the band is finite
CiFinite(n, dRecovery) == n > 2 /\ dRecovery.k = "fin"

NoReport == [made |-> FALSE, raised |-> FALSE, n |-> 0, slope |-> NaN, intercept |-> NaN,
             dRecovery |-> NaN, tRecoverBy |-> NaT, ciFinite |-> FALSE]

\* lines 99-127: what is computed and printed for the retained samples s;
\* raised when linregress raises and nothing is printed
MakeReport(a, s) ==
    LET mdl == linregress(dDays(s), SensorOf(s))
        dRecovery == DRecovery(a.threshold, mdl)
    IN  [made |-> ~mdl.raised, raised |-> mdl.raised, n |-> Len(s),
         slope |-> mdl.slope, intercept |-> mdl.intercept,
         dRecovery |-> dRecovery,
         tRecoverBy |-> TRecoverBy(s[1].t, dRecovery),
         ciFinite |-> CiFinite(Len(s), dRecovery)]

(***************************************************************************)
(* The run: one pass of the loop of line 56 per file.                      *)
(***************************************************************************)
\* line 31: the file names given, one or more
NFiles == MaxFiles

Init ==
    /\ args \in ArgsSet
    /\ index = 0
    /\ pc = "loop"
    /\ file = NoFile
    /\ ds = << >>
    /\ open = {}
    /\ opened = << >>
    /\ log = {}
    /\ reports = {}
    /\ report = NoReport

\* a dataset that is never released: the variant of Release that forgets it
ReleaseNever(o, i) == o

\* line 58: leaving the with block, by its end, by continue or by an exception,
\* closes the dataset
Release(o, i) == o \ {i}

\* lines 60-62: one error per missing variable
MissingErrors(i, f) ==
    {[file |-> i, what |-> w] :
        w \in {x \in {"no time variable", "no sensor variable"} :
                  \/ x = "no time variable" /\ ~f.hasTime
                  \/ x = "no sensor variable" /\ ~f.hasSensor}}

\* line 58: xr.open_dataset raises for a file it cannot read; nothing is opened
OpenFails ==
    /\ pc = "loop"
    /\ index < NFiles
    /\ \E f \in Files :
        /\ ~f.readable
        /\ file' = f
    /\ pc' = "aborted"
    /\ ds' = << >>
    /\ report' = NoReport
    /\ UNCHANGED <<args, index, open, opened, log, reports>>

\* lines 56-66 and 77: a file that lacks the time or the sensor variable is
\* opened and an error is logged for each missing variable, then
\* ds[args.time] (line 66) or ds[args.sensor] (line 77) raises KeyError; the
\* exception leaves the with block and ends the run
OpenMissing ==
    /\ pc = "loop"
    /\ index < NFiles
    /\ \E f \in Files :
        /\ f.readable
        /\ ~f.hasTime \/ ~f.hasSensor
        /\ file' = f
        /\ ds' = f.samples
        /\ log' = log \cup MissingErrors(index, f)
    /\ open' = Release(open \cup {index}, index)
    /\ opened' = Append(opened, index)
    /\ report' = NoReport
    /\ pc' = "aborted"
    /\ UNCHANGED <<args, index, reports>>

\* lines 56-78: open the next file, keep the two variables, convert the time,
\* drop duplicates and nulls, sort
OpenDataset ==
    /\ pc = "loop"
    /\ index < NFiles
    /\ \E f \in Files :
        /\ f.readable
        /\ f.hasTime /\ f.hasSensor
        /\ file' = f
        /\ ds' = CleanSamples(f.kind, f.samples)
        /\ log' = log \cup MissingErrors(index, f)
    /\ open' = open \cup {index}
    /\ opened' = Append(opened, index)
    /\ report' = NoReport
    /\ pc' = "cleaned"
    /\ UNCHANGED <<args, index, reports>>

\* lines 84, 88, 91: IndexError, which leaves the with block and ends the run
WindowFails ==
    /\ pc = "cleaned"
    /\ WindowRaises(args, ds)
    /\ open' = Release(open, index)
    /\ pc' = "aborted"
    /\ UNCHANGED <<args, index, file, ds, opened, log, reports, report>>

\* lines 80-93
Window ==
    /\ pc = "cleaned"
    /\ ~WindowRaises(args, ds)
    /\ ds' = WindowSamples(args, ds)
    /\ pc' = "windowed"
    /\ UNCHANGED <<args, index, file, open, opened, log, reports, report>>

\* lines 95-97: nothing left, log it and continue with the next file; continue
\* leaves the with block
SkipEmpty ==
    /\ pc = "windowed"
    /\ Len(ds) = 0
    /\ log' = log \cup {[file |-> index, what |-> "no data"]}
    /\ open' = Release(open, index)
    /\ pc' = "skipped"
    /\ UNCHANGED <<args, index, file, ds, opened, reports, report>>

\* lines 99-127: fit, extrapolate, print the report, reach the end of the with
\* block; an exception of linregress leaves the with block and ends the run
FitReport ==
    /\ pc = "windowed"
    /\ Len(ds) > 0
    /\ open' = Release(open, index)
    /\ LET r == MakeReport(args, ds)
       IN  IF r.raised
           THEN /\ pc' = "aborted"
                /\ UNCHANGED <<reports, report>>
           ELSE /\ report' = r
                /\ reports' = reports \cup {index}
                /\ pc' = "reported"
    /\ UNCHANGED <<args, index, file, ds, opened, log>>

\* line 56: the loop moves on to the next file name; what the last pass read
\* and computed is dead from here on
NextFile ==
    /\ pc \in {"skipped", "reported"}
    /\ index' = index + 1
    /\ pc' = "loop"
    /\ file' = NoFile
    /\ ds' = << >>
    /\ report' = NoReport
    /\ UNCHANGED <<args, open, opened, log, reports>>

\* line 56: the loop ends after the last file
Finish ==
    /\ pc = "loop"
    /\ index = NFiles
    /\ pc' = "done"
    /\ UNCHANGED <<args, index, file, ds, open, opened, log, reports, report>>

Next ==
    \/ OpenFails
    \/ OpenMissing
    \/ OpenDataset
    \/ WindowFails
    \/ Window
    \/ SkipEmpty
    \/ FitReport
    \/ NextFile
    \/ Finish

Spec == Init /\ [][Next]_vars

(***************************************************************************)
(* Vocabulary of the properties.                                           *)
(***************************************************************************)
\* the input samples of the current file, their timestamps converted
Stamped == ConvertTime(file.kind, file.samples)

\* sample i of S is the first one, in the order of S, with its timestamp
FirstOccurrence(S, i) == \A j \in 1..(i - 1) : S[j].t # S[i].t

\* the current file has both variables and was read
FileUsable == file.readable /\ file.hasTime /\ file.hasSensor

\* the pass over the current file has ended, one way or another
PassEnded == pc \in {"reported", "skipped", "aborted"}

StrictlyAscending(s) == \A i \in 1..Len(s) : \A j \in (i + 1)..Len(s) : s[i].t < s[j].t

\* the input samples with the missing sensor values deleted beforehand
DeleteNull(s) ==
    LET F[i \in 0..Len(s)] ==
            IF i = 0 THEN << >>
            ELSE IF s[i].isnull THEN F[i - 1] ELSE Append(F[i - 1], s[i])
    IN  F[Len(s)]

Example == <<[t |-> 0, v |-> 50, isnull |-> FALSE], [t |-> SecsPerDay, v |-> 40, isnull |-> FALSE]>>

(***************************************************************************)
(* C1                                                                      *)
(***************************************************************************)
\* C1: whenever a report is printed from a finite offset, the recovery
\* timestamp is the first retained timestamp plus (threshold - intercept)/slope
\* days with the fraction of a day kept; the series [(t0, 50), (t0 + 1d, 40)]
\* with threshold 15 gives slope -10, intercept 50 and t0 + 3.5 days.
C1_RecoveryKeepsFraction ==
    /\ (pc = "reported" /\ report.dRecovery.k = "fin") =>
          report.tRecoverBy = TRecoverByExact(ds[1].t, report.dRecovery)
    /\ (pc = "reported" /\ ds = Example /\ args.threshold = DefaultThreshold) =>
          /\ report.slope = Fin(RInt(-10))
          /\ report.intercept = Fin(RInt(50))
          /\ report.tRecoverBy = [nat |-> FALSE, t |-> 3 * SecsPerDay + SecsPerDay \div 2]

(***************************************************************************)
(* C2                                                                      *)
(***************************************************************************)
\* C2: a file that lacks the time or the sensor variable gets an error in the
\* log and no report, and the run does not abort on it.
C2_MissingVariableSkipped ==
    (file.readable /\ (~file.hasTime \/ ~file.hasSensor)) =>
        /\ \E e \in log : e.file = index
        /\ index \notin reports
        /\ pc # "aborted"

(***************************************************************************)
(* C3                                                                      *)
(***************************************************************************)
\* C3: under every window option, a file of which no sample remains ends its
\* pass skipped, with a logged error and no report, never with a crash.
C3_EmptySkipped ==
    (PassEnded /\ FileUsable /\ Len(ds) = 0) =>
        /\ pc = "skipped"
        /\ [file |-> index, what |-> "no data"] \in log
        /\ index \notin reports

(***************************************************************************)
(* C4                                                                      *)
(***************************************************************************)
\* C4: a file with exactly one usable sample ends its pass skipped, with a
\* logged error and no report, and the run goes on.
C4_OneSampleSkipped ==
    (PassEnded /\ FileUsable /\ Len(ds) = 1) =>
        /\ pc = "skipped"
        /\ \E e \in log : e.file = index
        /\ index \notin reports

(***************************************************************************)
(* C5                                                                      *)
(***************************************************************************)
\* C5: a fitted slope of exactly zero never leads to a report whose recovery
\* time is not a time or whose offset or band is infinite or nan.
C5_ZeroSlopeNotReported ==
    (pc = "reported" /\ report.slope = Fin(RInt(0))) =>
        /\ report.dRecovery.k = "fin"
        /\ ~report.tRecoverBy.nat
        /\ report.ciFinite

(***************************************************************************)
(* C6                                                                      *)
(***************************************************************************)
\* the samples the fit would use had the nulls been deleted from the input
WithoutNulls == WindowSamples(args, CleanSamples(file.kind, DeleteNull(file.samples)))

\* C6: the slope and the intercept reported for a file are those of the same
\* file with its missing-value samples deleted beforehand, and a file is
\* skipped for lack of data only if that file would be too.
C6_NullsDoNotAffectFit ==
    /\ pc = "reported" =>
          /\ Len(WithoutNulls) > 0
          /\ report.slope = MakeReport(args, WithoutNulls).slope
          /\ report.intercept = MakeReport(args, WithoutNulls).intercept
    /\ pc = "skipped" => Len(WithoutNulls) = 0

(***************************************************************************)
(* C7                                                                      *)
(***************************************************************************)
\* every retained sample is an input sample that is the first of its timestamp
RetainedAreFirst ==
    LET S == Stamped
    IN  \A k \in 1..Len(ds) :
            \E i \in 1..Len(S) : S[i] = ds[k] /\ FirstOccurrence(S, i)

\* C7 as stated: after cleaning the timestamps are strictly ascending and of
\* every group of input samples sharing a timestamp exactly one is retained,
\* the first in input order.
C7_ExactlyOnePerTimestamp ==
    pc = "cleaned" =>
        LET S == Stamped
        IN  /\ StrictlyAscending(ds)
            /\ \A i \in 1..Len(S) :
                  FirstOccurrence(S, i) => \E k \in 1..Len(ds) : ds[k] = S[i]

\* C7 as amended: the retained timestamps are strictly ascending, each retained
\* sample is the first input sample of its timestamp, and right after cleaning
\* the first sample of a timestamp is retained exactly when its value is not
\* missing (otherwise nothing of that timestamp is retained).
C7_FirstOccurrenceOrNone ==
    /\ pc \in {"cleaned", "windowed", "reported", "skipped"} =>
          StrictlyAscending(ds) /\ RetainedAreFirst
    /\ pc = "cleaned" =>
          LET S == Stamped
          IN  \A i \in 1..Len(S) :
                  FirstOccurrence(S, i) =>
                      ((\E k \in 1..Len(ds) : ds[k].t = S[i].t) <=> ~S[i].isnull)

\* two input samples share a timestamp, differ in value, and the first is kept
C7_Witness ==
    /\ pc = "cleaned"
    /\ Len(ds) > 1
    /\ LET S == Stamped
       IN  \E i \in 1..Len(S) : \E j \in (i + 1)..Len(S) :
               /\ FirstOccurrence(S, i)
               /\ S[i].t = S[j].t
               /\ ~S[i].isnull /\ ~S[j].isnull
               /\ S[i].v # S[j].v
               /\ \E k \in 1..Len(ds) : ds[k] = S[i]

(***************************************************************************)
(* C8                                                                      *)
(***************************************************************************)
Cleaned == CleanSamples(file.kind, file.samples)

\* the cleaned samples with lo <= t <= hi; lo is a rational number of seconds
Between(s, lo, hi) ==
    LET F[i \in 0..Len(s)] ==
            IF i = 0 THEN << >>
            ELSE IF lo.n <= s[i].t * lo.d /\ s[i].t <= hi THEN Append(F[i - 1], s[i])
            ELSE F[i - 1]
    IN  F[Len(s)]

\* C8: the samples used are the cleaned samples between lo and hi, both
\* included: with --start/--stop lo is start, or the first timestamp, and hi
\* is stop, or the last timestamp; with --ndays=N hi is the last timestamp and
\* lo is hi minus N days; with no window option every cleaned sample is used.
C8_WindowAsStated ==
    (pc = "windowed" /\ Len(Cleaned) > 0) =>
        LET first == Cleaned[1].t
            last == Cleaned[Len(Cleaned)].t
        IN  /\ (args.start.given \/ args.stop.given) =>
                  ds = Between(Cleaned,
                               RInt(IF args.start.given THEN args.start.val ELSE first),
                               IF args.stop.given THEN args.stop.val ELSE last)
            /\ args.ndays.given =>
                  ds = Between(Cleaned,
                               RSub(RInt(last), RMul(args.ndays.val, RInt(SecsPerDay))),
                               last)
            /\ (~args.start.given /\ ~args.stop.given /\ ~args.ndays.given) => ds = Cleaned

(***************************************************************************)
(* C9                                                                      *)
(***************************************************************************)
\* C9: no file is ever windowed under a command line that gives --ndays
\* together with --start or with --stop.
C9_WindowsExclusive ==
    pc = "windowed" => ~(args.ndays.given /\ (args.start.given \/ args.stop.given))

(***************************************************************************)
(* C10                                                                     *)
(***************************************************************************)
\* C10: the files are opened in the order given, at most one dataset is open
\* at any moment and it is the current file's, and once the pass over a file
\* has ended, by a report, a skip or an exception, and when the run has
\* ended, no dataset is open.
C10_OneDatasetAtATime ==
    /\ Cardinality(open) <= 1
    /\ open \subseteq {index}
    /\ \A i \in 1..Len(opened) : opened[i] = i - 1
    /\ Len(opened) <= index + 1
    /\ pc \in {"loop", "reported", "skipped", "aborted", "done"} => open = {}
    /\ pc \in {"cleaned", "windowed"} => open = {index}

\* the second file is open after the first one was opened and released
C10_Witness ==
    /\ index > 0
    /\ open = {index}
    /\ opened = [i \in 1..(index + 1) |-> i - 1]

====
